---- MODULE Spec2Model ----
(***************************************************************************)
(* Model of the personal finance planner (app.py, supabase_client.py):     *)
(* the billing-cycle resolver calcular_data_vencimento, the add / delete   *)
(* / card handlers of show_main_app, the cached loaders and the store      *)
(* client functions.                                                       *)
(***************************************************************************)
EXTENDS Integers, Sequences, FiniteSets, TLC

\* ------------------------------------------------------------------------
\* Bounds
\* ------------------------------------------------------------------------
\* number of calendar years purchase dates are drawn from (from 2024, a leap year)
NumAnos == 2
\* largest parcela_index the resolver specification evaluates
MaxIndice == 3
\* largest number of installments (num_parcelas) a form submits
MaxParcelas == 2
\* largest number of script runs (page loads and button presses) of a session
MaxRuns == 3
\* largest number of rows in the store the client functions and the dashboard
\* rendering are applied to
MaxLinhas == 3

VARIABLES
    compra,        \* resolver: [data, venc, fech] the arguments under evaluation
    faturas,       \* resolver: due dates returned so far for parcela_index 1..Len
    erro,          \* resolver: TRUE once the resolver raised ValueError
    transactions,  \* store: rows of table 'transactions'
    credit_cards,  \* store: rows of table 'credit_cards'
    nextId,        \* store: next id the store assigns in table 'transactions'
    nextCardId,    \* store: next id the store assigns in table 'credit_cards'
    nextUuid,      \* next value uuid.uuid4() returns
    grupos,        \* the values uuid.uuid4() returned so far, in order
    cacheTx,       \* st.cache_data entry of load_data, per user_id
    cacheCards,    \* st.cache_data entry of get_credit_cards, per user_id
    runs,          \* number of times the script ran in this session
    painel,        \* what the last script run showed (filters, KPIs, pivot)
    last           \* what the last script run did (calls made, messages shown)

vars == <<compra, faturas, erro, transactions, credit_cards, nextId, nextCardId,
          nextUuid, grupos, cacheTx, cacheCards, runs, painel, last>>

resolverVars == <<compra, faturas, erro>>
appVars == <<transactions, credit_cards, nextId, nextCardId, nextUuid, grupos,
            cacheTx, cacheCards, runs, painel, last>>

\* ------------------------------------------------------------------------
\* Calendar dates (datetime.date) and dateutil.relativedelta
\* ------------------------------------------------------------------------
Min(a, b) == IF a <= b THEN a ELSE b

Date(y, m, d) == [y |-> y, m |-> m, d |-> d]

IsLeap(y) == (y % 4 = 0 /\ y % 100 # 0) \/ y % 400 = 0

DaysInMonth(y, m) ==
    IF m = 2 THEN (IF IsLeap(y) THEN 29 ELSE 28)
    ELSE IF m \in {4, 6, 9, 11} THEN 30 ELSE 31

\* the value standing for a raised ValueError
ValueError == Date(0, 0, 0)

\* date.replace(day=dia): raises ValueError when the day does not exist
Replace(data, dia) ==
    IF dia >= 1 /\ dia <= DaysInMonth(data.y, data.m)
    THEN Date(data.y, data.m, dia)
    ELSE ValueError

\* date + relativedelta(months=n): the day is clamped to the month's length
AddMonths(data, n) ==
    LET years  == n \div 12
        months == n % 12
        mraw   == data.m + months
        year   == data.y + years + (IF mraw > 12 THEN 1 ELSE 0)
        month  == IF mraw > 12 THEN mraw - 12 ELSE mraw
    IN Date(year, month, Min(data.d, DaysInMonth(year, month)))

\* months since year 0 of a date's (year, month)
MonthIndex(dt) == dt.y * 12 + dt.m - 1

\* date comparison
DateLess(a, b) ==
    \/ a.y < b.y
    \/ a.y = b.y /\ a.m < b.m
    \/ a.y = b.y /\ a.m = b.m /\ a.d < b.d

\* variant: the closing day is not consulted, the first invoice is always the
\* base due date
calcular_sem_fechamento(data_compra, dia_vencimento, dia_fechamento, parcela_index) ==
    LET replaced == Replace(data_compra, dia_vencimento)
        data_vencimento_base ==
            IF dia_vencimento < dia_fechamento
            THEN AddMonths(replaced, 1) ELSE replaced
    IN IF replaced = ValueError THEN ValueError
       ELSE AddMonths(data_vencimento_base, parcela_index - 1)

\* ------------------------------------------------------------------------
\* calcular_data_vencimento
\* ------------------------------------------------------------------------
\* variant: the closing-day comparison is strict (a purchase on the closing day
\* goes to the next cycle)
calcular_fechamento_estrito(data_compra, dia_vencimento, dia_fechamento, parcela_index) ==
    LET replaced == Replace(data_compra, dia_vencimento)
        data_vencimento_base ==
            IF dia_vencimento < dia_fechamento
            THEN AddMonths(replaced, 1) ELSE replaced
        primeira_fatura ==
            IF data_compra.d < dia_fechamento
            THEN data_vencimento_base
            ELSE AddMonths(data_vencimento_base, 1)
    IN IF replaced = ValueError THEN ValueError
       ELSE AddMonths(primeira_fatura, parcela_index - 1)

\* variant: the installments are spaced with relativedelta(years=...) instead
\* of months
calcular_parcelas_em_anos(data_compra, dia_vencimento, dia_fechamento, parcela_index) ==
    LET replaced == Replace(data_compra, dia_vencimento)
        data_vencimento_base ==
            IF dia_vencimento < dia_fechamento
            THEN AddMonths(replaced, 1) ELSE replaced
        primeira_fatura ==
            IF data_compra.d <= dia_fechamento
            THEN data_vencimento_base
            ELSE AddMonths(data_vencimento_base, 1)
    IN IF replaced = ValueError THEN ValueError
       ELSE AddMonths(primeira_fatura, 12 * (parcela_index - 1))

calcular_data_vencimento(data_compra, dia_vencimento, dia_fechamento, parcela_index) ==
    LET replaced == Replace(data_compra, dia_vencimento)
        data_vencimento_base ==
            IF dia_vencimento < dia_fechamento
            THEN AddMonths(replaced, 1) ELSE replaced
        primeira_fatura ==
            IF data_compra.d <= dia_fechamento
            THEN data_vencimento_base
            ELSE AddMonths(data_vencimento_base, 1)
    IN IF replaced = ValueError THEN ValueError
       ELSE AddMonths(primeira_fatura, parcela_index - 1)

\* ------------------------------------------------------------------------
\* Store rows, form values
\* ------------------------------------------------------------------------
Users == {"u1", "u2"}

\* the user of the dashboard session (st.session_state['user'])
Sessions == {"u1"}

\* Python None / SQL NULL in an id column
None == 0

Tipos == {"despesa", "receita", "investimento"}

\* options of the "Meio de Pagamento" radio
MeiosPagamento == {"A Vista (Dinheiro/Debito)", "Cartao de Credito", "Emprestimo"}

\* meio_pagamento as the script sets it: the radio only exists for despesa
MeiosDe(tipo) == IF tipo = "despesa" THEN MeiosPagamento ELSE {"avista"}

\* categoria_final: the selectbox of the type's category list
CategoriasDe(tipo) ==
    IF tipo = "despesa" THEN {"Moradia"}
    ELSE IF tipo = "receita" THEN {"Salario"} ELSE {"Acoes"}

Valores == {100}
Descricoes == {"compra"}
DatasForm == {Date(2025, 1, 31), Date(2025, 2, 10)}
NomesCartao == {"", "Nubank"}
DiasVencimentoForm == {10, 31}
DiasFechamentoForm == {28}

\* str(date): ISO text YYYY-MM-DD, kept as the number YYYYMMDD
str(data) == data.y * 10000 + data.m * 100 + data.d

\* pd.to_datetime on the stored text
to_datetime(txt) == Date(txt \div 10000, (txt \div 100) % 100, txt % 100)

\* f"{descricao} ({i}/{n})"
Sufixada(descricao, i, n) == [texto |-> descricao, parcela |-> <<i, n>>]

\* a description as typed, no suffix
Simples(descricao) == [texto |-> descricao, parcela |-> <<>>]

\* ------------------------------------------------------------------------
\* supabase_client: table reads and writes
\* ------------------------------------------------------------------------
\* what a client function returns: None, or response.data
NoneResponse == [none |-> TRUE, data |-> {}]
Data(rows) == [none |-> FALSE, data |-> rows]

\* "if response:" - None and the empty list are falsy
Truthy(response) == ~response.none /\ response.data # {}

\* rows get_transactions(user_id) selects
get_transactions(store, user_id) == {r \in store : r.user_id = user_id}

\* rows get_credit_cards(user_id) selects
get_credit_cards(cards, user_id) == {c \in cards : c.user_id = user_id}

\* the rows an insert of the list 'drafts' creates, ids assigned from 'first'
InsertedRows(drafts, first) ==
    {[id |-> first + i - 1] @@ drafts[i] : i \in 1 .. Len(drafts)}

\* the dict add_transaction builds
TransactionData(user_id, tipo, valor, descricao, categoria, data, card_id, grupo) ==
    [user_id |-> user_id, tipo |-> tipo, valor |-> valor, descricao |-> descricao,
     categoria |-> categoria, data |-> str(data), card_id |-> card_id,
     installment_group_id |-> grupo]

\* add_transaction: one insert; wok = FALSE is the store call raising
add_transaction(store, first, transaction_data, wok) ==
    IF wok
    THEN [store |-> store \cup InsertedRows(<<transaction_data>>, first),
          response |-> Data(InsertedRows(<<transaction_data>>, first)),
          msgs |-> <<>>]
    ELSE [store |-> store, response |-> NoneResponse,
          msgs |-> <<"Erro ao adicionar transacao">>]

\* variant: the installments are inserted one call after the other and the
\* failing call is the last one
add_batch_uma_a_uma(store, first, transactions_list, wok) ==
    IF wok
    THEN [store |-> store \cup InsertedRows(transactions_list, first),
          response |-> Data(InsertedRows(transactions_list, first)),
          msgs |-> <<>>]
    ELSE [store |-> store \cup
                    InsertedRows(SubSeq(transactions_list, 1,
                                        Len(transactions_list) - 1), first),
          response |-> NoneResponse,
          msgs |-> <<"Erro ao adicionar lote de transacoes">>]

\* add_batch_transactions: one insert of the whole list
add_batch_transactions(store, first, transactions_list, wok) ==
    IF wok
    THEN [store |-> store \cup InsertedRows(transactions_list, first),
          response |-> Data(InsertedRows(transactions_list, first)),
          msgs |-> <<>>]
    ELSE [store |-> store, response |-> NoneResponse,
          msgs |-> <<"Erro ao adicionar lote de transacoes">>]

\* variant: the delete matches on the id alone
DeleteMatchSoId(store, transaction_id, user_id) ==
    {r \in store : r.id = transaction_id}

\* rows .match({'id': transaction_id, 'user_id': user_id}) selects
DeleteMatch(store, transaction_id, user_id) ==
    {r \in store : r.id = transaction_id /\ r.user_id = user_id}

\* delete_transaction: deletes the matching rows and returns them
delete_transaction(store, transaction_id, user_id, wok) ==
    IF wok
    THEN [store |-> store \ DeleteMatch(store, transaction_id, user_id),
          response |-> Data(DeleteMatch(store, transaction_id, user_id)),
          msgs |-> <<>>]
    ELSE [store |-> store, response |-> NoneResponse,
          msgs |-> <<"Erro ao deletar transacao">>]

\* add_credit_card: one insert into credit_cards
add_credit_card(cards, first, user_id, nome_cartao, limite, dia_vencimento, dia_fechamento, wok) ==
    LET row == [id |-> first, user_id |-> user_id, nome_cartao |-> nome_cartao,
                limite |-> limite, dia_vencimento |-> dia_vencimento,
                dia_fechamento |-> dia_fechamento]
    IN IF wok
       THEN [store |-> cards \cup {row}, response |-> Data({row}), msgs |-> <<>>]
       ELSE [store |-> cards, response |-> NoneResponse,
             msgs |-> <<"Erro ao adicionar cartao">>]

\* ------------------------------------------------------------------------
\* st.cache_data entries
\* ------------------------------------------------------------------------
Miss == [hit |-> FALSE, df |-> {}]

\* st.cache_data.clear()
ClearedCache == [u \in Users |-> Miss]

\* load_data(user_id) behind st.cache_data: a miss runs get_transactions and
\* converts the column types; a failed read yields the empty frame
load_data(cache, store, user_id, readOk) ==
    IF cache[user_id].hit THEN cache
    ELSE [cache EXCEPT ![user_id] =
            [hit |-> TRUE,
             df  |-> IF readOk
                     THEN {[r EXCEPT !.data = to_datetime(r.data)] :
                              r \in get_transactions(store, user_id)}
                     ELSE {}]]

\* sc.get_credit_cards(user_id) behind st.cache_data
load_cards(cache, cards, user_id, readOk) ==
    IF cache[user_id].hit THEN cache
    ELSE [cache EXCEPT ![user_id] =
            [hit |-> TRUE,
             df  |-> IF readOk THEN get_credit_cards(cards, user_id) ELSE {}]]

\* ------------------------------------------------------------------------
\* Installment expansion in the submit handler
\* ------------------------------------------------------------------------
\* variant: the loan loop adds i months with i counted from 1
LoanBatchUmMesDepois(user_id, valor, descricao, categoria, data, num_parcelas, grupo_id) ==
    [i \in 1 .. num_parcelas |->
        [user_id |-> user_id, tipo |-> "despesa", valor |-> valor,
         descricao |-> Sufixada(descricao, i, num_parcelas),
         categoria |-> categoria,
         data |-> str(AddMonths(data, i)),
         card_id |-> None,
         installment_group_id |-> grupo_id]]

\* batch_list of the "Emprestimo" branch (i here is the loop's i + 1)
LoanBatch(user_id, valor, descricao, categoria, data, num_parcelas, grupo_id) ==
    [i \in 1 .. num_parcelas |->
        [user_id |-> user_id, tipo |-> "despesa", valor |-> valor,
         descricao |-> Sufixada(descricao, i, num_parcelas),
         categoria |-> categoria,
         data |-> str(AddMonths(data, i - 1)),
         card_id |-> None,
         installment_group_id |-> grupo_id]]

\* batch_list of the "Cartao de Credito" branch
CardBatch(user_id, valor, descricao, categoria, data, num_parcelas, grupo_id, cartao_info) ==
    [i \in 1 .. num_parcelas |->
        [user_id |-> user_id, tipo |-> "despesa", valor |-> valor,
         descricao |-> Sufixada(descricao, i, num_parcelas),
         categoria |-> categoria,
         data |-> str(calcular_data_vencimento(data, cartao_info.dia_vencimento,
                                               cartao_info.dia_fechamento, i)),
         card_id |-> cartao_info.id,
         installment_group_id |-> grupo_id]]

\* the credit-card loop raises (ValueError out of calcular_data_vencimento)
CardLoopRaises(data, num_parcelas, cartao_info) ==
    \E i \in 1 .. num_parcelas :
        calcular_data_vencimento(data, cartao_info.dia_vencimento,
                                 cartao_info.dia_fechamento, i) = ValueError

\* ------------------------------------------------------------------------
\* The dashboard a script run renders from df (filters, KPIs, monthly pivot)
\* ------------------------------------------------------------------------
\* the rows of a DataFrame built from the list the store returned, taken in
\* id order
RECURSIVE DataFrame(_)
DataFrame(rows) ==
    IF rows = {} THEN <<>>
    ELSE LET primeiro == CHOOSE r \in rows : \A o \in rows : r.id <= o.id
         IN <<primeiro>> \o DataFrame(rows \ {primeiro})

\* sorted(...) of a set of integers
RECURSIVE sorted(_)
sorted(S) ==
    IF S = {} THEN <<>>
    ELSE LET menor == CHOOSE x \in S : \A y \in S : x <= y
         IN <<menor>> \o sorted(S \ {menor})

\* sorted(..., reverse=True)
sorted_reverse(S) == [i \in 1 .. Cardinality(S) |-> sorted(S)[Cardinality(S) + 1 - i]]

\* sorted(df['ano'].unique(), reverse=True)
anos_disponiveis(df) == sorted_reverse({df[i].data.y : i \in 1 .. Len(df)})

\* sorted(df['mes'].unique())
meses_disponiveis(df) == sorted({df[i].data.m : i \in 1 .. Len(df)})

\* the selectbox's default year
ano_atual(df, agora) ==
    IF \E i \in 1 .. Len(df) : df[i].data.y = agora.ano
    THEN agora.ano ELSE anos_disponiveis(df)[1]

\* the selectbox's default month
mes_atual(df, agora) ==
    IF \E i \in 1 .. Len(df) : df[i].data.m = agora.mes
    THEN agora.mes ELSE meses_disponiveis(df)[1]

\* df[(df['ano'] == ano_selecionado) & (df['mes'] == mes_selecionado)]
df_filtered(df, ano_selecionado, mes_selecionado) ==
    LET NoPeriodo(r) == r.data.y = ano_selecionado /\ r.data.m = mes_selecionado
    IN SelectSeq(df, NoPeriodo)

\* df[df['tipo'] == tipo]['valor'].sum()
RECURSIVE soma(_, _)
soma(df, tipo) ==
    IF df = <<>> THEN 0
    ELSE (IF Head(df).tipo = tipo THEN Head(df).valor ELSE 0) + soma(Tail(df), tipo)

\* variant: the investments are taken out of the balance as well
saldo_total_com_investimentos(df) ==
    soma(df, "receita") - soma(df, "despesa") - soma(df, "investimento")

\* saldo_total = receitas_total - despesas_total
saldo_total(df) == soma(df, "receita") - soma(df, "despesa")

\* saldo_mes = receitas_mes - despesas_mes
saldo_mes(filtrado) == soma(filtrado, "receita") - soma(filtrado, "despesa")

\* variant: the month's expenses are left out of the month's balance
saldo_mensal_so_receita(receita, despesa) == receita

\* df_timeline['saldo_mensal'] = df_timeline['receita'] - df_timeline['despesa']
saldo_mensal(receita, despesa) == receita - despesa

\* variant: the index sorted by mes, then by ano
RECURSIVE IndicePivotPorMes(_)
IndicePivotPorMes(chaves) ==
    IF chaves = {} THEN <<>>
    ELSE LET menor == CHOOSE k \in chaves :
                         \A o \in chaves :
                            k[2] < o[2] \/ (k[2] = o[2] /\ k[1] <= o[1])
         IN <<menor>> \o IndicePivotPorMes(chaves \ {menor})

\* the (ano, mes) index of pivot_table, in its sorted order: by ano, then by mes
RECURSIVE IndicePivot(_)
IndicePivot(chaves) ==
    IF chaves = {} THEN <<>>
    ELSE LET menor == CHOOSE k \in chaves :
                         \A o \in chaves :
                            k[1] < o[1] \/ (k[1] = o[1] /\ k[2] <= o[2])
         IN <<menor>> \o IndicePivot(chaves \ {menor})

\* saldo_mensal.cumsum() up to row k
RECURSIVE cumsum(_, _)
cumsum(saldos, k) == IF k = 0 THEN 0 ELSE cumsum(saldos, k - 1) + saldos[k]

\* df.pivot_table(index=['ano','mes'], columns='tipo', values='valor',
\* aggfunc='sum').fillna(0) with saldo_mensal and saldo_acumulado_total
df_timeline(df) ==
    LET indice == IndicePivot({<<df[i].data.y, df[i].data.m>> : i \in 1 .. Len(df)})
        grupo(k) == df_filtered(df, indice[k][1], indice[k][2])
        saldos == [k \in 1 .. Len(indice) |->
                      saldo_mensal(soma(grupo(k), "receita"), soma(grupo(k), "despesa"))]
    IN [k \in 1 .. Len(indice) |->
           [ano |-> indice[k][1], mes |-> indice[k][2],
            receita |-> soma(grupo(k), "receita"),
            despesa |-> soma(grupo(k), "despesa"),
            investimento |-> soma(grupo(k), "investimento"),
            saldo_mensal |-> saldos[k],
            saldo_acumulado_total |-> cumsum(saldos, k)]]

\* the period the two selectboxes offer: their defaults, or any of their options
Periodos(df, agora, escolhas) ==
    IF df = <<>> THEN {[ano |-> agora.ano, mes |-> agora.mes]}
    ELSE IF escolhas = "default"
    THEN {[ano |-> ano_atual(df, agora), mes |-> mes_atual(df, agora)]}
    ELSE {[ano |-> anos_disponiveis(df)[i], mes |-> meses_disponiveis(df)[j]] :
             i \in 1 .. Len(anos_disponiveis(df)), j \in 1 .. Len(meses_disponiveis(df))}

\* what the script run shows: the filter defaults and selection, the lifetime
\* KPIs, the KPIs of the selected period and the monthly pivot
Painel(df, agora, selecionado) ==
    LET filtrado == df_filtered(df, selecionado.ano, selecionado.mes)
    IN [vazio |-> df = <<>>,
        agora |-> agora,
        ano_atual |-> IF df = <<>> THEN agora.ano ELSE ano_atual(df, agora),
        mes_atual |-> IF df = <<>> THEN agora.mes ELSE mes_atual(df, agora),
        ano_selecionado |-> selecionado.ano,
        mes_selecionado |-> selecionado.mes,
        receitas_total |-> soma(df, "receita"),
        despesas_total |-> soma(df, "despesa"),
        investimentos_total |-> soma(df, "investimento"),
        saldo_total |-> saldo_total(df),
        receitas_mes |-> soma(filtrado, "receita"),
        despesas_mes |-> soma(filtrado, "despesa"),
        investimentos_mes |-> soma(filtrado, "investimento"),
        saldo_mes |-> saldo_mes(filtrado),
        df_timeline |-> df_timeline(df)]

\* datetime.now() of the session: (year, month)
Hoje == [ano |-> 2025, mes |-> 2]

\* nothing shown yet
NoPainel == Painel(<<>>, [ano |-> 0, mes |-> 0], [ano |-> 0, mes |-> 0])

\* variant: the script is not run again, the dashboard stays as it was
MostraSemRerun(df, agora, escolhas) == UNCHANGED painel

\* the dashboard a script run renders from the df its load_data call returned
Mostra(df, agora, escolhas) ==
    \E selecionado \in Periodos(DataFrame(df), agora, escolhas) :
        painel' = Painel(DataFrame(df), agora, selecionado)

\* ------------------------------------------------------------------------
\* Script runs of show_main_app
\* ------------------------------------------------------------------------
NoForm == [tipo |-> "", meio |-> "", valor |-> 0, data |-> Date(0, 0, 0),
           descricao |-> "", num_parcelas |-> 0, cartao |-> None, id |-> None]

\* the record of a script run: the form values, the lists handed to
\* add_transaction and add_batch_transactions, the group id generated,
\* whether the try block raised, whether a store call raised, the response
\* and the messages shown
Run(op, user, form, singles, batches, grupo, raised, storeFailed, response, msgs) ==
    [op |-> op, user |-> user, form |-> form, singles |-> singles,
     batches |-> batches, grupo_id |-> grupo, raised |-> raised,
     storeFailed |-> storeFailed, response |-> response, msgs |-> msgs]

IdleRun(op, user) ==
    Run(op, user, NoForm, <<>>, <<>>, None, FALSE, FALSE, NoneResponse, <<>>)

\* a row another user's session recorded before this session starts
OutroRow ==
    [id |-> 1] @@ TransactionData("u2", "receita", 100, Simples("compra"), "Salario",
                                  Date(2025, 1, 31), None, None)

\* the first id the store assigns in this session
FirstId == OutroRow.id + 1

AppInit ==
    /\ transactions = {OutroRow}
    /\ credit_cards = {}
    /\ nextId = FirstId
    /\ nextCardId = 1
    /\ nextUuid = 1
    /\ grupos = <<>>
    /\ cacheTx = ClearedCache
    /\ cacheCards = ClearedCache
    /\ runs = 0
    /\ painel = NoPainel
    /\ last = IdleRun("start", "")

\* cartao_selecionado_nome when no card was selected
NoneNome == "<None>"

NoCard == [id |-> None, user_id |-> "", nome_cartao |-> NoneNome, limite |-> 0,
           dia_vencimento |-> 0, dia_fechamento |-> 0]

\* outcomes of a store read (TRUE: rows returned, FALSE: the call raised),
\* 'leituras' being the outcomes the store can produce; behind a cache hit no
\* read happens
ReadOutcomes(entry, leituras) == IF entry.hit THEN {TRUE} ELSE leituras

\* outcomes of a store write: without a call nothing can fail
WriteOutcomes(called) == IF called THEN BOOLEAN ELSE {TRUE}

\* outcomes of the reads of the script run st.rerun() starts
RerunOutcomes(rerun, leituras) == IF rerun THEN leituras ELSE {TRUE}

\* a script run with no button pressed: the cached loaders run
PageLoad(user, rokT, rokC, agora, escolhas) ==
    /\ runs < MaxRuns
    /\ runs' = runs + 1
    /\ cacheTx' = load_data(cacheTx, transactions, user, rokT)
    /\ cacheCards' = load_cards(cacheCards, credit_cards, user, rokC)
    /\ Mostra(cacheTx'[user].df, agora, escolhas)
    /\ last' = IdleRun("load", user)
    /\ UNCHANGED <<transactions, credit_cards, nextId, nextCardId, nextUuid, grupos>>
    /\ UNCHANGED resolverVars

\* no store call made: response stays None
NoCall(store) == [store |-> store, response |-> NoneResponse, msgs |-> <<>>]

\* the branches of the try block of the add form: the lists built, the group
\* id generated, whether the block raised, and the store call's result
AddTry(store, first, uuid, user_id, tipo, meio, valor, data, descricao, categoria_final, num_parcelas, cartao_selecionado_nome, cartao_info, wok) ==
    LET nada == [singles |-> <<>>, batches |-> <<>>, grupo_id |-> None,
                 raised |-> FALSE, msgs |-> <<>>, call |-> NoCall(store)]
        emprestimo == LoanBatch(user_id, valor, descricao, categoria_final, data,
                                num_parcelas, uuid)
        cartao == CardBatch(user_id, valor, descricao, categoria_final, data,
                            num_parcelas, uuid, cartao_info)
        unica == TransactionData(user_id, tipo, valor, Simples(descricao),
                                 categoria_final, data, None, None)
    IN IF tipo = "despesa" /\ meio = "Emprestimo"
       THEN [nada EXCEPT !.batches = <<emprestimo>>, !.grupo_id = uuid,
                         !.call = add_batch_transactions(store, first, emprestimo, wok)]
       ELSE IF tipo = "despesa" /\ meio = "Cartao de Credito"
       THEN IF cartao_selecionado_nome = NoneNome
            THEN [nada EXCEPT !.msgs = <<"Erro: Nenhum cartao selecionado.">>]
            ELSE IF CardLoopRaises(data, num_parcelas, cartao_info)
            THEN [nada EXCEPT !.grupo_id = uuid, !.raised = TRUE]
            ELSE [nada EXCEPT !.batches = <<cartao>>, !.grupo_id = uuid,
                              !.call = add_batch_transactions(store, first, cartao, wok)]
       ELSE IF tipo = "despesa" /\ meio = "A Vista"
       THEN [nada EXCEPT !.singles = <<unica>>,
                         !.call = add_transaction(store, first, unica, wok)]
       ELSE IF tipo = "receita"
       THEN [nada EXCEPT !.singles = <<unica>>,
                         !.call = add_transaction(store, first, unica, wok)]
       ELSE IF tipo = "investimento"
       THEN [nada EXCEPT !.singles = <<unica>>,
                         !.call = add_transaction(store, first, unica, wok)]
       ELSE nada

\* variant: the except clause swallows the error
ExceptMsgsCalado == <<>>

\* except Exception as e: st.error(...)
ExceptMsgs == <<"Erro ao processar transacao">>

\* variant: the failure message is shown whether or not a card was selected
SuccessCheckSemGuarda(response, cartao_selecionado_nome) ==
    IF Truthy(response) THEN <<"Transacao adicionada!">>
    ELSE <<"Falha ao adicionar transacao.">>

\* the centralised success check after the branches
SuccessCheck(response, cartao_selecionado_nome) ==
    IF Truthy(response) THEN <<"Transacao adicionada!">>
    ELSE IF cartao_selecionado_nome # NoneNome
    THEN <<"Falha ao adicionar transacao.">> ELSE <<>>

\* the messages the submit handler shows
AddMsgs(t, cartao_selecionado_nome) ==
    t.msgs \o t.call.msgs \o
    (IF t.raised THEN ExceptMsgs ELSE SuccessCheck(t.call.response, cartao_selecionado_nome))

Sucesso(run) ==
    \E k \in 1 .. Len(run.msgs) :
        run.msgs[k] \in {"Transacao adicionada!", "Cartao adicionado!",
                         "Transacao deletada com sucesso!"}

\* the "Adicionar Transacao" button of add_form
SubmitAdd(user, tipo, meio, valor, data, descricao, rokT, rokC, leituras) ==
    LET df_cache == load_data(cacheTx, transactions, user, rokT)
        cards_cache == load_cards(cacheCards, credit_cards, user, rokC)
        cards_list == cards_cache[user].df
        comCartao == tipo = "despesa" /\ meio = "Cartao de Credito" /\ cards_list # {}
        parcelado == comCartao \/ (tipo = "despesa" /\ meio = "Emprestimo")
        categoria_final == CHOOSE c \in CategoriasDe(tipo) : TRUE
    IN
    \E cartao_info \in (IF comCartao THEN cards_list ELSE {NoCard}),
       num_parcelas \in (IF parcelado THEN 1 .. MaxParcelas ELSE {1}) :
    LET tentativa == AddTry(transactions, nextId, nextUuid, user, tipo, meio, valor,
                            data, descricao, categoria_final, num_parcelas,
                            cartao_info.nome_cartao, cartao_info, TRUE)
    IN
    \E wok \in WriteOutcomes(tentativa.singles # <<>> \/ tentativa.batches # <<>>) :
    LET t == AddTry(transactions, nextId, nextUuid, user, tipo, meio, valor,
                    data, descricao, categoria_final, num_parcelas,
                    cartao_info.nome_cartao, cartao_info, wok)
        response == t.call.response
    IN
    \E rok2T \in RerunOutcomes(Truthy(response), leituras),
       rok2C \in RerunOutcomes(Truthy(response), leituras) :
       /\ runs < MaxRuns
       /\ runs' = runs + 1
       /\ transactions' = t.call.store
       /\ nextId' = nextId + Cardinality(response.data)
       /\ nextUuid' = IF t.grupo_id # None THEN nextUuid + 1 ELSE nextUuid
       /\ grupos' = IF t.grupo_id # None THEN Append(grupos, t.grupo_id) ELSE grupos
       /\ IF Truthy(response)
          THEN /\ cacheTx' = load_data(ClearedCache, transactions', user, rok2T)
               /\ cacheCards' = load_cards(ClearedCache, credit_cards, user, rok2C)
          ELSE /\ cacheTx' = df_cache
               /\ cacheCards' = cards_cache
       /\ Mostra(cacheTx'[user].df, Hoje, "default")
       /\ last' = Run("add", user,
                      [tipo |-> tipo, meio |-> meio, valor |-> valor, data |-> data,
                       descricao |-> descricao, num_parcelas |-> num_parcelas,
                       cartao |-> cartao_info.id, id |-> None],
                      t.singles, t.batches, t.grupo_id, t.raised,
                      (t.singles # <<>> \/ t.batches # <<>>) /\ response.none,
                      response, AddMsgs(t, cartao_info.nome_cartao))
       /\ UNCHANGED <<credit_cards, nextCardId>>
       /\ UNCHANGED resolverVars

\* the "Adicionar Cartao" button of add_card_form
SubmitCard(user, nome_cartao, dia_vencimento, dia_fechamento, rokT, rokC, leituras) ==
    LET df_cache == load_data(cacheTx, transactions, user, rokT)
        cards_cache == load_cards(cacheCards, credit_cards, user, rokC)
        invalido == nome_cartao = "" \/ dia_vencimento <= 0 \/ dia_fechamento <= 0
    IN
    \E wok \in WriteOutcomes(~invalido) :
    LET call == IF invalido THEN NoCall(credit_cards)
                ELSE add_credit_card(credit_cards, nextCardId, user, nome_cartao, 0,
                                     dia_vencimento, dia_fechamento, wok)
        response == call.response
    IN
    \E rok2T \in RerunOutcomes(Truthy(response), leituras),
       rok2C \in RerunOutcomes(Truthy(response), leituras) :
       /\ runs < MaxRuns
       /\ runs' = runs + 1
       /\ credit_cards' = call.store
       /\ nextCardId' = nextCardId + Cardinality(response.data)
       /\ IF Truthy(response)
          THEN /\ cacheTx' = load_data(ClearedCache, transactions, user, rok2T)
               /\ cacheCards' = load_cards(ClearedCache, credit_cards', user, rok2C)
          ELSE /\ cacheTx' = df_cache
               /\ cacheCards' = cards_cache
       /\ Mostra(cacheTx'[user].df, Hoje, "default")
       /\ last' = Run("card", user, NoForm, <<>>, <<>>, None, FALSE,
                      ~invalido /\ response.none, response,
                      call.msgs \o
                      (IF invalido THEN <<"Preencha todos os campos do cartao.">>
                       ELSE IF Truthy(response) THEN <<"Cartao adicionado!">>
                       ELSE <<"Falha ao adicionar cartao.">>))
       /\ UNCHANGED <<transactions, nextId, nextUuid, grupos>>
       /\ UNCHANGED resolverVars

\* the "Deletar Transacao Selecionada" button
SubmitDelete(user, rokT, rokC, leituras) ==
    LET df_cache == load_data(cacheTx, transactions, user, rokT)
        cards_cache == load_cards(cacheCards, credit_cards, user, rokC)
    IN
    \E selecionado \in Periodos(DataFrame(df_cache[user].df), Hoje, "qualquer") :
    \E transaction_id_to_delete \in
          {r.id : r \in {p \in df_cache[user].df :
                            p.data.y = selecionado.ano /\ p.data.m = selecionado.mes}},
       wok \in BOOLEAN :
    LET call == delete_transaction(transactions, transaction_id_to_delete, user, wok)
        response == call.response
    IN
    \E rok2T \in RerunOutcomes(Truthy(response), leituras),
       rok2C \in RerunOutcomes(Truthy(response), leituras) :
       /\ runs < MaxRuns
       /\ runs' = runs + 1
       /\ transactions' = call.store
       /\ IF Truthy(response)
          THEN /\ cacheTx' = load_data(ClearedCache, transactions', user, rok2T)
               /\ cacheCards' = load_cards(ClearedCache, credit_cards, user, rok2C)
          ELSE /\ cacheTx' = df_cache
               /\ cacheCards' = cards_cache
       /\ Mostra(cacheTx'[user].df, Hoje, "default")
       /\ last' = Run("delete", user,
                      [NoForm EXCEPT !.id = transaction_id_to_delete],
                      <<>>, <<>>, None, FALSE, response.none, response,
                      call.msgs \o
                      (IF Truthy(response) THEN <<"Transacao deletada com sucesso!">>
                       ELSE <<"Erro ao deletar transacao.">>))
       /\ UNCHANGED <<credit_cards, nextId, nextCardId, nextUuid, grupos>>
       /\ UNCHANGED resolverVars

\* an entry of st.cache_data reaches its ttl (300 s) and is dropped
CacheExpire(user, entry) ==
    /\ \/ /\ entry = "load_data"
          /\ cacheTx[user].hit
          /\ cacheTx' = [cacheTx EXCEPT ![user] = Miss]
          /\ UNCHANGED cacheCards
       \/ /\ entry = "get_credit_cards"
          /\ cacheCards[user].hit
          /\ cacheCards' = [cacheCards EXCEPT ![user] = Miss]
          /\ UNCHANGED cacheTx
    /\ last' = IdleRun("expire", user)
    /\ UNCHANGED <<transactions, credit_cards, nextId, nextCardId, nextUuid, grupos, runs,
                   painel>>
    /\ UNCHANGED resolverVars

\* the resolver variables while the dashboard specification runs
ResolverIdle ==
    /\ compra = [data |-> Date(2024, 1, 1), venc |-> 1, fech |-> 1]
    /\ faturas = <<>>
    /\ erro = FALSE

Init == AppInit /\ ResolverIdle

\* the steps of the dashboard, 'leituras' being the outcomes a store read can have
Step(leituras) ==
    \/ \E user \in Sessions :
       \E rokT \in ReadOutcomes(cacheTx[user], leituras),
          rokC \in ReadOutcomes(cacheCards[user], leituras) :
          PageLoad(user, rokT, rokC, Hoje, "default")
    \/ \E user \in Sessions, tipo \in Tipos, valor \in Valores, data \in DatasForm,
          descricao \in Descricoes :
       \E meio \in MeiosDe(tipo),
          rokT \in ReadOutcomes(cacheTx[user], leituras),
          rokC \in ReadOutcomes(cacheCards[user], leituras) :
          SubmitAdd(user, tipo, meio, valor, data, descricao, rokT, rokC, leituras)
    \/ \E user \in Sessions, nome_cartao \in NomesCartao,
          dia_vencimento \in DiasVencimentoForm, dia_fechamento \in DiasFechamentoForm :
       \E rokT \in ReadOutcomes(cacheTx[user], leituras),
          rokC \in ReadOutcomes(cacheCards[user], leituras) :
          SubmitCard(user, nome_cartao, dia_vencimento, dia_fechamento, rokT, rokC,
                     leituras)
    \/ \E user \in Sessions :
       \E rokT \in ReadOutcomes(cacheTx[user], leituras),
          rokC \in ReadOutcomes(cacheCards[user], leituras) :
          SubmitDelete(user, rokT, rokC, leituras)

\* the dashboard in a session shorter than the cache's ttl, with a store whose
\* reads succeed (writes may fail)
Next == Step({TRUE})

\* the dashboard with a store whose reads may fail as well and cache entries
\* that outlive their ttl
NextReadFailures ==
    \/ Step(BOOLEAN)
    \/ \E user \in Sessions, entry \in {"load_data", "get_credit_cards"} :
          CacheExpire(user, entry)

Spec == Init /\ [][Next]_vars

SpecReadFailures == Init /\ [][NextReadFailures]_vars

\* ------------------------------------------------------------------------
\* Specification of the client function delete_transaction: the store holds
\* any rows of any users and the function is called with any arguments
\* ------------------------------------------------------------------------
SemDono == "-"

ApiRow(id, dono) ==
    [id |-> id] @@ TransactionData(dono, "receita", 100, Simples("compra"), "Salario",
                                   Date(2025, 1, 31), None, None)

InitApi ==
    /\ \E donos \in [1 .. MaxLinhas -> Users \cup {SemDono}] :
          transactions = {ApiRow(i, donos[i]) : i \in {j \in 1 .. MaxLinhas : donos[j] # SemDono}}
    /\ credit_cards = {}
    /\ nextId = MaxLinhas + 1
    /\ nextCardId = 1
    /\ nextUuid = 1
    /\ grupos = <<>>
    /\ cacheTx = ClearedCache
    /\ cacheCards = ClearedCache
    /\ runs = 0
    /\ painel = NoPainel
    /\ last = IdleRun("start", "")
    /\ ResolverIdle

\* a call delete_transaction(transaction_id, user_id)
DeleteCall(transaction_id, user_id, wok) ==
    LET call == delete_transaction(transactions, transaction_id, user_id, wok)
    IN /\ transactions' = call.store
       /\ last' = Run("delete_transaction", user_id,
                      [NoForm EXCEPT !.id = transaction_id], <<>>, <<>>, None, FALSE,
                      call.response.none, call.response, call.msgs)
       /\ UNCHANGED <<credit_cards, nextId, nextCardId, nextUuid, grupos, cacheTx,
                      cacheCards, runs, painel>>
       /\ UNCHANGED resolverVars

NextApi ==
    \E transaction_id \in 1 .. MaxLinhas, user_id \in Users, wok \in BOOLEAN :
        DeleteCall(transaction_id, user_id, wok)

SpecApi == InitApi /\ [][NextApi]_vars

\* ------------------------------------------------------------------------
\* Properties of the submit handler (checked under Spec)
\* ------------------------------------------------------------------------
\* the last run was a submit of the add form
IsAdd == last.op = "add"

\* income, investment, or expense paid with the cash/debit option of the radio
SingleShot(form) ==
    \/ form.tipo \in {"receita", "investimento"}
    \/ form.tipo = "despesa" /\ form.meio = "A Vista (Dinheiro/Debito)"

IsLoan(form) == form.tipo = "despesa" /\ form.meio = "Emprestimo"

IsCard(form) == form.tipo = "despesa" /\ form.meio = "Cartao de Credito"

\* a stored row without the id the store gave it
Draft(row) == [k \in DOMAIN row \ {"id"} |-> row[k]]

\* C1 (as stated): a single-shot submit (income, investment, cash/debit
\* expense) makes exactly one add_transaction call carrying no group id and
\* no card id, makes no batch insert, and - the store accepting the insert -
\* ends with the record in the store and success reported.
C1_SingleShotInsertsOnce ==
    (IsAdd /\ SingleShot(last.form) /\ ~last.storeFailed) =>
        /\ Len(last.singles) = 1
        /\ last.batches = <<>>
        /\ last.singles[1].installment_group_id = None
        /\ last.singles[1].card_id = None
        /\ \E r \in transactions : Draft(r) = last.singles[1]
        /\ Sucesso(last)

\* C5: when the credit-card loop raises, the submit handler ends with the
\* error shown, no call to the store, the store unchanged and no success.
C5_RaiseIsReportedStoreUntouched ==
    [][(last'.op = "add" /\ last'.raised) =>
          /\ last'.msgs = <<"Erro ao processar transacao">>
          /\ ~Sucesso(last')
          /\ last'.batches = <<>> /\ last'.singles = <<>>
          /\ transactions' = transactions
          /\ credit_cards' = credit_cards]_vars

\* a credit-card submit whose due day does not exist in the purchase month
C5_Witness ==
    /\ IsAdd /\ last.raised
    /\ IsCard(last.form)
    /\ \E c \in credit_cards :
          /\ c.id = last.form.cartao
          /\ c.dia_vencimento > DaysInMonth(last.form.data.y, last.form.data.m)

\* C6: a loan submit hands add_batch_transactions one list of N expense
\* records; record i is dated i-1 months after the first-installment date
\* (same day, clamped to the month's length), has the per-installment amount,
\* the description suffixed (i/N), no card id, and the one group id generated.
C6_LoanBatch ==
    (IsAdd /\ IsLoan(last.form)) =>
        /\ last.singles = <<>>
        /\ Len(last.batches) = 1
        /\ LET b == last.batches[1]
               f == last.form
           IN /\ Len(b) = f.num_parcelas
              /\ last.grupo_id # None
              /\ \A i \in 1 .. Len(b) :
                    /\ b[i].tipo = "despesa"
                    /\ b[i].valor = f.valor
                    /\ b[i].descricao = [texto |-> f.descricao,
                                         parcela |-> <<i, f.num_parcelas>>]
                    /\ b[i].card_id = None
                    /\ b[i].installment_group_id = last.grupo_id
                    /\ MonthIndex(to_datetime(b[i].data)) = MonthIndex(f.data) + i - 1
                    /\ to_datetime(b[i].data).d =
                          Min(f.data.d, DaysInMonth(to_datetime(b[i].data).y,
                                                    to_datetime(b[i].data).m))
              /\ (f.data = Date(2025, 1, 31) /\ Len(b) >= 2 => b[2].data = 20250228)

\* a loan of two installments starting on 2025-01-31
C6_Witness ==
    /\ IsAdd /\ IsLoan(last.form)
    /\ last.form.data = Date(2025, 1, 31)
    /\ last.form.num_parcelas = 2
    /\ Len(last.batches) = 1
    /\ last.batches[1][1].data = 20250131
    /\ last.batches[1][2].data = 20250228

NoDuplicates(seq) ==
    \A i \in 1 .. Len(seq) : \A j \in 1 .. Len(seq) : i # j => seq[i] # seq[j]

\* C7 (as stated): a credit-card submit with a selected card hands
\* add_batch_transactions one list of N expense records; record i is dated
\* calcular_data_vencimento(purchase date, due day, closing day, i), has the
\* per-installment amount, the selected card's id, and one group id that no
\* other submit got.
C7_CardBatch ==
    (IsAdd /\ IsCard(last.form) /\ last.form.cartao # None) =>
        /\ Len(last.batches) = 1
        /\ LET b == last.batches[1]
               f == last.form
               card == CHOOSE c \in credit_cards : c.id = f.cartao
           IN /\ Len(b) = f.num_parcelas
              /\ last.grupo_id # None
              /\ \A i \in 1 .. Len(b) :
                    /\ b[i].tipo = "despesa"
                    /\ b[i].valor = f.valor
                    /\ b[i].card_id = card.id
                    /\ b[i].installment_group_id = last.grupo_id
                    /\ b[i].data = str(calcular_data_vencimento(
                                          f.data, card.dia_vencimento,
                                          card.dia_fechamento, i))
        /\ NoDuplicates(grupos)

\* the rows of the store that carry the group id of the last submit
Persisted == {r \in transactions : r.installment_group_id = last.grupo_id}

\* C8: after an installment submit (loan or card) that reports success every
\* one of the N installments of its group is in the store, and after one that
\* does not report success none of them is.
C8_BatchAllOrNothing ==
    (IsAdd /\ (IsLoan(last.form) \/ IsCard(last.form)) /\ last.grupo_id # None) =>
        /\ Sucesso(last) =>
              /\ Len(last.batches) = 1
              /\ Cardinality(Persisted) = last.form.num_parcelas
              /\ {Draft(r) : r \in Persisted} =
                    {last.batches[1][i] : i \in 1 .. Len(last.batches[1])}
        /\ ~Sucesso(last) => Persisted = {}

\* an installment submit of two installments that reported success, both stored
C8_Witness ==
    /\ IsAdd /\ (IsLoan(last.form) \/ IsCard(last.form))
    /\ Len(last.batches) = 1
    /\ Len(last.batches[1]) = 2
    /\ Sucesso(last)
    /\ Cardinality(Persisted) = 2

\* ------------------------------------------------------------------------
\* Properties of the cache (checked under SpecReadFailures)
\* ------------------------------------------------------------------------
\* what a load shows when it reads the store now
Fresh(user) ==
    {[r EXCEPT !.data = to_datetime(r.data)] : r \in get_transactions(transactions, user)}

\* C9 (as stated): whatever writes and page loads happened, the cached
\* transaction and card lists a load serves equal the store's current
\* content for the user.
C9_CacheNeverStale ==
    \A user \in Sessions :
        /\ cacheTx[user].hit => cacheTx[user].df = Fresh(user)
        /\ cacheCards[user].hit =>
              cacheCards[user].df = get_credit_cards(credit_cards, user)

\* ------------------------------------------------------------------------
\* Properties of delete_transaction (checked under SpecApi)
\* ------------------------------------------------------------------------
\* C10: delete_transaction called with the id of another user's row returns
\* a falsy response (which the delete handler shows as an error) and leaves
\* the store as it was; called by the owner it removes exactly that row.
C10_DeleteScopedToOwner ==
    [][last'.op = "delete_transaction" =>
          LET alvo == {r \in transactions : r.id = last'.form.id}
          IN /\ (alvo # {} /\ \A r \in alvo : r.user_id # last'.user) =>
                   /\ ~Truthy(last'.response)
                   /\ transactions' = transactions
             /\ ((\E r \in alvo : r.user_id = last'.user) /\ ~last'.storeFailed) =>
                   /\ Truthy(last'.response)
                   /\ Cardinality(alvo) = 1
                   /\ transactions' = transactions \ alvo]_vars

\* a call with the id of a row of another user, answered with a falsy response
C10_Witness ==
    /\ last.op = "delete_transaction"
    /\ ~last.storeFailed
    /\ ~Truthy(last.response)
    /\ \E r \in transactions : r.id = last.form.id /\ r.user_id # last.user

\* ------------------------------------------------------------------------
\* Specification of the resolver: the arguments are drawn from bounded sets
\* and the resolver is applied to parcela_index 1, 2, ... as the credit-card
\* loop does.
\* ------------------------------------------------------------------------
Anos == 2024 .. (2024 + NumAnos - 1)

DatasCompra ==
    {Date(y, m, d) : y \in Anos, m \in 1..12, d \in 1..31} \
    {dt \in {Date(y, m, d) : y \in Anos, m \in 1..12, d \in 1..31} :
        dt.d > DaysInMonth(dt.y, dt.m)}

\* days of month a card is configured with (number_input 1..31)
DiasCartao == 1..31

InitResolver ==
    /\ AppInit
    /\ compra \in [data : DatasCompra, venc : DiasCartao, fech : DiasCartao]
    /\ faturas = <<>>
    /\ erro = FALSE

\* one iteration of the loop: the resolver returns the next installment's date
ResolveReturns ==
    /\ ~erro
    /\ Len(faturas) < MaxIndice
    /\ LET r == calcular_data_vencimento(compra.data, compra.venc, compra.fech,
                                         Len(faturas) + 1)
       IN /\ r # ValueError
          /\ faturas' = Append(faturas, r)
    /\ UNCHANGED <<compra, erro>>
    /\ UNCHANGED appVars

\* one iteration of the loop: the resolver raises
ResolveRaises ==
    /\ ~erro
    /\ Len(faturas) < MaxIndice
    /\ calcular_data_vencimento(compra.data, compra.venc, compra.fech,
                                Len(faturas) + 1) = ValueError
    /\ erro' = TRUE
    /\ UNCHANGED <<compra, faturas>>
    /\ UNCHANGED appVars

NextResolver == ResolveReturns \/ ResolveRaises

SpecResolver == InitResolver /\ [][NextResolver]_vars

\* ------------------------------------------------------------------------
\* Properties of the resolver (checked under SpecResolver)
\* ------------------------------------------------------------------------
ResolverActed == erro \/ Len(faturas) >= 1

\* C2: whenever the resolver returns, installment 1 is due in the purchase
\* month plus one month if due_day < closing_day plus one further month if
\* the purchase day is after the closing day; a purchase on the closing day
\* gets no extra month.  The two worked examples give 2025-12-10 and
\* 2026-01-10.
C2_FirstInstallmentMonth ==
    Len(faturas) >= 1 =>
        /\ MonthIndex(faturas[1]) =
              MonthIndex(compra.data)
              + (IF compra.venc < compra.fech THEN 1 ELSE 0)
              + (IF compra.data.d > compra.fech THEN 1 ELSE 0)
        /\ (compra = [data |-> Date(2025, 11, 15), venc |-> 10, fech |-> 28]
               => faturas[1] = Date(2025, 12, 10))
        /\ (compra = [data |-> Date(2025, 11, 30), venc |-> 10, fech |-> 28]
               => faturas[1] = Date(2026, 1, 10))

\* a purchase made exactly on the closing day of a card due earlier in the month
C2_Witness ==
    /\ compra = [data |-> Date(2025, 11, 28), venc |-> 10, fech |-> 28]
    /\ Len(faturas) >= 1
    /\ faturas[1] = Date(2025, 12, 10)

\* C3 (as stated): the due dates are non-decreasing in the installment index
\* and installment i+1's date equals installment i's date advanced by one
\* month.
C3_NextIsPreviousPlusOneMonth ==
    \A i \in 1 .. (Len(faturas) - 1) :
        /\ ~DateLess(faturas[i + 1], faturas[i])
        /\ faturas[i + 1] = AddMonths(faturas[i], 1)

\* C3 (amended): the due dates are strictly increasing, installment i+1 is due
\* in the calendar month right after installment i's month, and its day is
\* the first installment's day clamped to the length of that month.
C3_NextIsFollowingMonth ==
    \A i \in 1 .. (Len(faturas) - 1) :
        /\ DateLess(faturas[i], faturas[i + 1])
        /\ MonthIndex(faturas[i + 1]) = MonthIndex(faturas[i]) + 1
        /\ faturas[i + 1].d =
              Min(faturas[1].d, DaysInMonth(faturas[i + 1].y, faturas[i + 1].m))

\* three installments where the second was clamped by a short month and the
\* third is back on the first installment's day
C3_Witness ==
    /\ Len(faturas) >= 3
    /\ faturas[2].d < faturas[1].d
    /\ faturas[3].d = faturas[1].d

\* C4 (as stated): whenever due_day does not exist in the purchase month the
\* resolver clamps to the last day of the month instead of failing.
C4_ClampsInsteadOfFailing ==
    (ResolverActed /\ compra.venc > DaysInMonth(compra.data.y, compra.data.m)) =>
        /\ ~erro
        /\ Len(faturas) >= 1
        /\ faturas[1].d = DaysInMonth(faturas[1].y, faturas[1].m)

\* ------------------------------------------------------------------------
\* Specification of the dashboard rendering: the store holds any rows of the
\* session's user, in any order of contents, and the script runs once at any
\* date with any period selected
\* ------------------------------------------------------------------------
\* dates of the rows in the store
DatasPainel == {Date(2024, 3, 15), Date(2024, 7, 20), Date(2025, 3, 5), Date(2025, 7, 31)}

\* datetime.now() of the script run: (year, month)
Agoras == {[ano |-> 2025, mes |-> 7], [ano |-> 2025, mes |-> 11], [ano |-> 2026, mes |-> 11]}

\* row i of the session's user; the amounts are such that no two sets of rows
\* have the same sum
PainelRow(i, tipo, data) ==
    [id |-> FirstId + i - 1] @@
    TransactionData("u1", tipo, 100 * 2 ^ i, Simples("compra"),
                    CHOOSE c \in CategoriasDe(tipo) : TRUE, data, None, None)

InitPainel ==
    /\ \E n \in 0 .. MaxLinhas :
          \E tipos \in [1 .. n -> Tipos], datas \in [1 .. n -> DatasPainel] :
             transactions = {OutroRow} \cup {PainelRow(i, tipos[i], datas[i]) : i \in 1 .. n}
    /\ credit_cards = {}
    /\ nextId = FirstId + MaxLinhas
    /\ nextCardId = 1
    /\ nextUuid = 1
    /\ grupos = <<>>
    /\ cacheTx = ClearedCache
    /\ cacheCards = ClearedCache
    /\ runs = MaxRuns - 1
    /\ painel = NoPainel
    /\ last = IdleRun("start", "")
    /\ ResolverIdle

NextPainel ==
    \E user \in Sessions, agora \in Agoras : PageLoad(user, TRUE, TRUE, agora, "qualquer")

SpecPainel == InitPainel /\ [][NextPainel]_vars

\* ------------------------------------------------------------------------
\* Properties of the dashboard rendering (checked under SpecPainel)
\* ------------------------------------------------------------------------
\* the (year, month) pairs that have a transaction of the session's user
ParesPresentes == {<<r.data.y, r.data.m>> : r \in Fresh("u1")}

\* C11 (as stated): with a non-empty transaction set the default period is
\* the current (year, month) if that pair is among the data, and otherwise
\* the most recent year present with the earliest month present in that year.
C11_DefaultPeriod ==
    ~painel.vazio =>
        LET recente == CHOOSE y \in {p[1] : p \in ParesPresentes} :
                          \A p \in ParesPresentes : p[1] <= y
            primeiro == CHOOSE m \in {p[2] : p \in {q \in ParesPresentes : q[1] = recente}} :
                           \A p \in ParesPresentes : p[1] = recente => m <= p[2]
        IN IF <<painel.agora.ano, painel.agora.mes>> \in ParesPresentes
           THEN painel.ano_atual = painel.agora.ano /\ painel.mes_atual = painel.agora.mes
           ELSE painel.ano_atual = recente /\ painel.mes_atual = primeiro

\* sum of the amounts of a set of rows
RECURSIVE Total(_)
Total(S) ==
    IF S = {} THEN 0
    ELSE LET r == CHOOSE x \in S : TRUE IN r.valor + Total(S \ {r})

DoTipo(S, tipo) == {r \in S : r.tipo = tipo}

NoMes(S, idx) == {r \in S : MonthIndex(r.data) = idx}

AteMes(S, idx) == {r \in S : MonthIndex(r.data) <= idx}

\* C12: the monthly pivot covers the complete transaction set whatever period
\* is selected: one row per (year, month) that has a transaction, with the
\* income, expense and investment sums (0 for a missing type), ordered by
\* year then month, the running balance of a row being the sum of
\* income - expense over that row and all chronologically earlier rows,
\* whatever order the store returned the rows in.
C12_PivotOverAllHistory ==
    ~painel.vazio =>
        LET todas == Fresh("u1")
            t == painel.df_timeline
            idx(k) == t[k].ano * 12 + t[k].mes - 1
        IN /\ {idx(k) : k \in 1 .. Len(t)} = {MonthIndex(r.data) : r \in todas}
           /\ Len(t) = Cardinality({MonthIndex(r.data) : r \in todas})
           /\ \A k \in 1 .. Len(t) :
                 /\ t[k].receita = Total(DoTipo(NoMes(todas, idx(k)), "receita"))
                 /\ t[k].despesa = Total(DoTipo(NoMes(todas, idx(k)), "despesa"))
                 /\ t[k].investimento = Total(DoTipo(NoMes(todas, idx(k)), "investimento"))
                 /\ t[k].saldo_acumulado_total =
                       Total(DoTipo(AteMes(todas, idx(k)), "receita"))
                       - Total(DoTipo(AteMes(todas, idx(k)), "despesa"))
           /\ \A k \in 1 .. Len(t) : \A j \in 1 .. Len(t) :
                 k < j => \/ t[k].ano < t[j].ano
                          \/ t[k].ano = t[j].ano /\ t[k].mes < t[j].mes

\* a render of rows stored out of chronological order, over two years, with a
\* month that lacks a type, while a period holding only part of them is selected
C12_Witness ==
    /\ ~painel.vazio
    /\ Len(painel.df_timeline) >= 3
    /\ painel.df_timeline[1].ano < painel.df_timeline[3].ano
    /\ painel.df_timeline[1].mes > painel.df_timeline[2].mes
    /\ \E r1 \in Fresh("u1"), r2 \in Fresh("u1") : r1.id < r2.id /\ DateLess(r2.data, r1.data)
    /\ \E k \in 1 .. Len(painel.df_timeline) :
          painel.df_timeline[k].despesa = 0 /\ painel.df_timeline[k].investimento > 0
    /\ painel.receitas_mes + painel.despesas_mes + painel.investimentos_mes
          < painel.receitas_total + painel.despesas_total + painel.investimentos_total

\* the script has run and rendered the dashboard
Rendered == cacheTx["u1"].hit

\* C14: the lifetime totals are the sums of amount per type over the whole
\* transaction set, the lifetime balance is income - expense (investment
\* excluded), and the period totals are the same sums over exactly the
\* transactions dated in the selected (year, month).
C14_Totals ==
    Rendered =>
        LET todas == Fresh("u1")
            periodo == NoMes(todas, painel.ano_selecionado * 12 + painel.mes_selecionado - 1)
        IN /\ painel.receitas_total = Total(DoTipo(todas, "receita"))
           /\ painel.despesas_total = Total(DoTipo(todas, "despesa"))
           /\ painel.investimentos_total = Total(DoTipo(todas, "investimento"))
           /\ painel.saldo_total = painel.receitas_total - painel.despesas_total
           /\ painel.receitas_mes = Total(DoTipo(periodo, "receita"))
           /\ painel.despesas_mes = Total(DoTipo(periodo, "despesa"))
           /\ painel.investimentos_mes = Total(DoTipo(periodo, "investimento"))
           /\ painel.saldo_mes = painel.receitas_mes - painel.despesas_mes

\* a render with the three types present, the selected period holding an
\* income only, and an expense in the same month of another year
C14_Witness ==
    /\ Rendered
    /\ painel.investimentos_total > 0
    /\ painel.receitas_mes > 0
    /\ painel.despesas_mes = 0
    /\ \E r \in Fresh("u1") :
          /\ r.tipo = "despesa"
          /\ r.data.m = painel.mes_selecionado
          /\ r.data.y # painel.ano_selecionado

\* ------------------------------------------------------------------------
\* Properties of the dashboard across the handlers (checked under Spec)
\* ------------------------------------------------------------------------
\* the running balance the pivot t gives through month idx: that of its last
\* row at or before idx, 0 before its first row
SaldoEm(t, idx) ==
    LET ks == {k \in 1 .. Len(t) : t[k].ano * 12 + t[k].mes - 1 <= idx}
    IN IF ks = {} THEN 0
       ELSE t[CHOOSE k \in ks : \A j \in ks : j <= k].saldo_acumulado_total

MesesDe(t) == {t[k].ano * 12 + t[k].mes - 1 : k \in 1 .. Len(t)}

\* +amount for income, -amount for expense, 0 for investment
Contribuicao(r) ==
    IF r.tipo = "receita" THEN r.valor ELSE IF r.tipo = "despesa" THEN 0 - r.valor ELSE 0

Parte(r, tipo) == IF r.tipo = tipo THEN r.valor ELSE 0

\* C13: after a delete that succeeded and the reload it starts, the deleted
\* transaction is out of the lifetime totals, the period totals and the
\* pivot; the running balance through every month at or after the deleted
\* transaction's month is lower by exactly its signed contribution and the
\* running balance through every earlier month is what it was.
C13_DeleteLeavesAggregates ==
    [][(last'.op = "delete" /\ Sucesso(last')) =>
          LET alvo == CHOOSE r \in Fresh("u1") : r.id = last'.form.id
              resto == Fresh("u1") \ {alvo}
              periodo == NoMes(resto, painel'.ano_selecionado * 12
                                      + painel'.mes_selecionado - 1)
              t == painel'.df_timeline
          IN /\ \E r \in Fresh("u1") : r.id = last'.form.id
             /\ painel'.receitas_total = painel.receitas_total - Parte(alvo, "receita")
             /\ painel'.despesas_total = painel.despesas_total - Parte(alvo, "despesa")
             /\ painel'.investimentos_total =
                   painel.investimentos_total - Parte(alvo, "investimento")
             /\ painel'.saldo_total = painel.saldo_total - Contribuicao(alvo)
             /\ painel'.receitas_mes = Total(DoTipo(periodo, "receita"))
             /\ painel'.despesas_mes = Total(DoTipo(periodo, "despesa"))
             /\ painel'.investimentos_mes = Total(DoTipo(periodo, "investimento"))
             /\ MesesDe(t) = {MonthIndex(r.data) : r \in resto}
             /\ \A k \in 1 .. Len(t) :
                   LET idx == t[k].ano * 12 + t[k].mes - 1
                   IN /\ t[k].receita = Total(DoTipo(NoMes(resto, idx), "receita"))
                      /\ t[k].despesa = Total(DoTipo(NoMes(resto, idx), "despesa"))
                      /\ t[k].investimento =
                            Total(DoTipo(NoMes(resto, idx), "investimento"))
             /\ \A idx \in MesesDe(painel.df_timeline) \cup MesesDe(t) :
                   SaldoEm(t, idx) =
                      SaldoEm(painel.df_timeline, idx)
                      - (IF idx >= MonthIndex(alvo.data) THEN Contribuicao(alvo) ELSE 0)]_vars

\* a delete that succeeded, reloaded, and left a balance to show
C13_Witness ==
    /\ last.op = "delete"
    /\ Sucesso(last)
    /\ ~painel.vazio
    /\ painel.saldo_total # 0
    /\ \A r \in Fresh("u1") : r.id # last.form.id

\* C15: a credit-card submit with no card selected (no card registered) is a
\* validation error: the error is shown, neither add_transaction nor
\* add_batch_transactions is called, the store is unchanged, the cache is not
\* invalidated (every entry it held is kept) and no success is reported.
C15_NoCardIsValidationError ==
    [][(last'.op = "add" /\ IsCard(last'.form) /\ last'.form.cartao = None) =>
          /\ last'.msgs = <<"Erro: Nenhum cartao selecionado.">>
          /\ ~Sucesso(last')
          /\ last'.singles = <<>> /\ last'.batches = <<>>
          /\ ~last'.raised
          /\ transactions' = transactions
          /\ credit_cards' = credit_cards
          /\ nextId' = nextId
          /\ \A u \in Users :
                /\ cacheTx[u].hit => cacheTx'[u] = cacheTx[u]
                /\ cacheCards[u].hit => cacheCards'[u] = cacheCards[u]]_vars

\* a credit-card submit by a user with no registered card, rows already stored
C15_Witness ==
    /\ IsAdd /\ IsCard(last.form)
    /\ last.form.cartao = None
    /\ get_credit_cards(credit_cards, last.user) = {}
    /\ cacheTx[last.user].hit /\ cacheTx[last.user].df # {}
    /\ last.msgs = <<"Erro: Nenhum cartao selecionado.">>

\* C16: the running balance of the last row of the monthly pivot equals the
\* lifetime balance of the KPIs, after any inserts, batch inserts and deletes.
C16_LastRunningBalanceIsLifetimeBalance ==
    ~painel.vazio =>
        painel.df_timeline[Len(painel.df_timeline)].saldo_acumulado_total
           = painel.saldo_total

\* the dashboard after a delete, with installments of a batch and an income
\* in the store, over two months or more
C16_Witness ==
    /\ last.op = "delete" /\ Sucesso(last)
    /\ Len(painel.df_timeline) >= 2
    /\ painel.receitas_total > 0
    /\ \E r \in Fresh("u1") : r.installment_group_id # None

\* C17 (as stated): whenever the resolver returns, the returned date's day is
\* the card's due day, or the last day of the returned month when that month
\* has fewer days than the due day, for every installment index.
C17_DueDayNeverDrifts ==
    \A i \in 1 .. Len(faturas) :
        faturas[i].d = Min(compra.venc, DaysInMonth(faturas[i].y, faturas[i].m))

\* C18: whenever the resolver returns, for every due day, closing day and
\* installment index the returned due date is on or after the purchase date.
C18_DueOnOrAfterPurchase ==
    \A i \in 1 .. Len(faturas) : ~DateLess(faturas[i], compra.data)

\* a purchase on the due day of a card that closes that day or later: the
\* first installment is due on the purchase date itself
C18_Witness ==
    /\ Len(faturas) >= 2
    /\ faturas[1] = compra.data
    /\ compra.data.d = compra.venc
    /\ compra.venc >= compra.fech

====
